---- MODULE Spec2Model ----
(***************************************************************************)
(* Model of the Simkl -> Trakt synchronisation scripts sync.mjs ("manual"),*)
(* sync-auto.mjs ("auto") and sync-github.js ("github").                   *)
(*                                                                         *)
(* Spec      one sync run, one step per awaited I/O operation              *)
(* SpecNorm  the payload construction applied to bounded snapshots         *)
(***************************************************************************)
EXTENDS Integers, Sequences, FiniteSets, TLC

VARIABLES
    variant,      \* which script runs: "manual", "auto" or "github"
    configFile,   \* persisted credentials (CONFIG_FILE, or process.env for github)
    config,       \* this.config
    pc,           \* position of the run
    watched,      \* const watched (the snapshot returned by getSimklWatched)
    traktObject,  \* const traktObject (the payload)
    requests,     \* every fetch() issued so far, in order, with its response status
    logFile,      \* logs/sync-history.json
    outcome,      \* what the run reported: [kind, status]
    exitCode,     \* process exit code, meaningful when pc = "exited"
    clock         \* the value the next new Date() gives

vars == <<variant, configFile, config, pc, watched, traktObject, requests,
          logFile, outcome, exitCode, clock>>

----------------------------------------------------------------------------
(* Bounds of the model. *)

MaxSeasons == 2
MaxEpisodes == 2
MaxTs == 1
MaxAdded == 1
MaxLogged == 1
MaxMovies == 2
MaxEntries == 2
MaxCalls == 3
MaxExpires == 3
MaxInterval == 2
MaxLag == 1

----------------------------------------------------------------------------
(* JavaScript values.  An optional value (undefined / null / a property that *)
(* is not there) is a sequence of length 0, a present one a sequence of      *)
(* length 1.  A timestamp or token of 0 is a falsy one (undefined, null, "").*)

None == <<>>
Some(x) == <<x>>

Variants == {"manual", "auto", "github"}

\* all sequences over S of length at most n
SeqsUpTo(S, n) == UNION {[1..k -> S] : k \in 0..n}

----------------------------------------------------------------------------
(* Schema normalisation: the construction of traktObject.                   *)

\* x || y on timestamps
OrElse(x, y) == IF x # 0 THEN x ELSE y

\* ({number: episode.number, watched_at: episode.last_watched_at || parent.last_watched_at})
EpisodeOut(episode, parent) ==
    [number |-> episode.number,
     watched_at |-> OrElse(episode.last_watched_at, parent.last_watched_at)]

\* episodes.map(episode => ({...}))
MapEpisodes(episodes, parent) ==
    [i \in 1..Len(episodes) |-> EpisodeOut(episodes[i], parent)]

\* .filter(ep => ep): a mapped episode is an object, hence truthy
EpTruthy(ep) == TRUE

\* season.episodes ? season.episodes.map(...).filter(ep => ep) : []
SeasonEpisodes(season, parent) ==
    IF season.episodes = None THEN <<>>
    ELSE SelectSeq(MapEpisodes(season.episodes[1], parent), EpTruthy)

\* .filter(season => season.episodes.length > 0)
NonEmptySeason(season) == Len(season.episodes) > 0

\* the seasons of a show entry (the same code in the three scripts)
ShowSeasons(show) ==
    IF show.seasons = None THEN <<>>
    ELSE SelectSeq([i \in 1..Len(show.seasons[1]) |->
                       [number |-> show.seasons[1][i].number,
                        episodes |-> SeasonEpisodes(show.seasons[1][i], show)]],
                   NonEmptySeason)

\* the seasons of an anime entry in sync.mjs
AnimeSeasonsManual(anime) ==
    IF anime.seasons = None THEN <<>>
    ELSE SelectSeq([i \in 1..Len(anime.seasons[1]) |->
                       [number |-> anime.seasons[1][i].number,
                        episodes |-> SeasonEpisodes(anime.seasons[1][i], anime)]],
                   NonEmptySeason)

\* seasons.flatMap(season => season.episodes ? season.episodes.map(...) : [])
RECURSIVE FlatMapEpisodes(_, _)
FlatMapEpisodes(seasons, anime) ==
    IF seasons = <<>> THEN <<>>
    ELSE (IF Head(seasons).episodes = None THEN <<>>
          ELSE MapEpisodes(Head(seasons).episodes[1], anime))
         \o FlatMapEpisodes(Tail(seasons), anime)

\* the episodes sync-auto.mjs gives to every season of an anime entry:
\* anime.seasons ? anime.seasons.flatMap(...) : []
AnimeAllEpisodes(anime) ==
    IF anime.seasons = None THEN <<>>
    ELSE FlatMapEpisodes(anime.seasons[1], anime)

\* the seasons of an anime entry in sync-auto.mjs
AnimeSeasonsAuto(anime) ==
    IF anime.seasons = None THEN <<>>
    ELSE SelectSeq([i \in 1..Len(anime.seasons[1]) |->
                       [number |-> anime.seasons[1][i].number,
                        episodes |-> AnimeAllEpisodes(anime)]],
                   NonEmptySeason)

\* the seasons of an anime entry, by script
AnimeSeasons(v, anime) ==
    IF v = "auto" THEN AnimeSeasonsAuto(anime) ELSE AnimeSeasonsManual(anime)

\* the object pushed for a movie
MovieOut(movie) ==
    [watched_at |-> movie.last_watched_at, ids |-> movie.ids[1]]

\* the object pushed for a show or anime entry with the given seasons
ShowOut(show, seasons) ==
    [watched_at |-> show.last_watched_at, ids |-> show.ids[1], seasons |-> seasons]

\* the test of the timestamp left out
WatchedAlways(entry) == TRUE

\* if (!movie.last_watched_at) return;
Watched(entry) == entry.last_watched_at # 0

\* "Process movies": the objects pushed to traktObject.movies
ProcessMovies(w) ==
    IF w.movies = None THEN <<>>
    ELSE LET kept == SelectSeq(w.movies[1], Watched)
         IN  [i \in 1..Len(kept) |-> MovieOut(kept[i])]

\* movie.movie.ids of an entry without a movie object throws a TypeError
MoviesThrow(w) ==
    /\ w.movies # None
    /\ \E i \in 1..Len(w.movies[1]) :
          Watched(w.movies[1][i]) /\ w.movies[1][i].ids = None

\* "Process shows": the objects pushed to traktObject.shows for watched.shows
ProcessShows(w) ==
    IF w.shows = None THEN <<>>
    ELSE LET kept == SelectSeq(w.shows[1],
                               LAMBDA e : Watched(e) /\ Len(ShowSeasons(e)) > 0)
         IN  [i \in 1..Len(kept) |-> ShowOut(kept[i], ShowSeasons(kept[i]))]

\* "Process anime": the objects pushed to traktObject.shows for watched.anime;
\* sync-github.js has no such block
ProcessAnime(v, w) ==
    IF v = "github" \/ w.anime = None THEN <<>>
    ELSE LET kept == SelectSeq(w.anime[1],
                               LAMBDA e : Watched(e) /\ Len(AnimeSeasons(v, e)) > 0)
         IN  [i \in 1..Len(kept) |-> ShowOut(kept[i], AnimeSeasons(v, kept[i]))]

\* show.show.ids of a pushed entry without a show object throws a TypeError
ShowsThrow(v, w) ==
    \/ /\ w.shows # None
       /\ \E i \in 1..Len(w.shows[1]) :
             LET e == w.shows[1][i] IN
             Watched(e) /\ Len(ShowSeasons(e)) > 0 /\ e.ids = None
    \/ /\ v # "github"
       /\ w.anime # None
       /\ \E i \in 1..Len(w.anime[1]) :
             LET e == w.anime[1][i] IN
             Watched(e) /\ Len(AnimeSeasons(v, e)) > 0 /\ e.ids = None

\* const traktObject = {movies: [], shows: []}
EmptyPayload == [movies |-> <<>>, shows |-> <<>>]

\* the construction with the anime block placed before the shows block
NormalizeAnimeFirst(v, w) ==
    IF MoviesThrow(w) \/ ShowsThrow(v, w)
    THEN [threw |-> TRUE, payload |-> EmptyPayload]
    ELSE [threw |-> FALSE,
          payload |-> [movies |-> ProcessMovies(w),
                       shows |-> ProcessAnime(v, w) \o ProcessShows(w)]]

\* the whole construction of traktObject from watched
Normalize(v, w) ==
    IF MoviesThrow(w) \/ ShowsThrow(v, w)
    THEN [threw |-> TRUE, payload |-> EmptyPayload]
    ELSE [threw |-> FALSE,
          payload |-> [movies |-> ProcessMovies(w),
                       shows |-> ProcessShows(w) \o ProcessAnime(v, w)]]

----------------------------------------------------------------------------
(* HTTP responses.  A reply is the status of the response, or 0 when fetch() *)
(* rejects (no response at all).                                             *)

Statuses == {200, 201, 401, 403, 500}
Replies == Statuses \cup {0}

\* fetch() rejected
Rejected(st) == st = 0

\* response.ok
Ok(st) == st >= 200 /\ st <= 299

\* response.status === 401
Unauthorized == 401

----------------------------------------------------------------------------
(* Credentials.                                                              *)

\* a token object as the token endpoint returns it
Tokens(n) == [access_token |-> n, refresh_token |-> n]

\* the token objects a stored configuration may hold: none (null, or no such
\* property), a complete one, or one whose access_token is missing or ""
StoredTokenObjects ==
    {None, Some(Tokens(1)), Some([access_token |-> 0, refresh_token |-> 1])}

\* the stored credentials at the start of a run: None is a missing or
\* unparseable CONFIG_FILE (for sync-github.js: the environment values unset)
ConfigFiles == {None} \cup {Some([trakt_tokens |-> t]) : t \in StoredTokenObjects}

\* GitHubSync.loadConfig: reads process.env, trakt_tokens null when unset
GitHubLoadConfig(env) ==
    IF env = None THEN [trakt_tokens |-> None] ELSE env[1]

\* the token object in the persisted credentials
StoredTokens(file) == IF file = None THEN None ELSE file[1].trakt_tokens

\* mutant: refreshTraktToken does not call saveConfig
SaveConfigNever(v, file, cfg) == file

\* mutant: saveConfig writes the new access token and keeps the rest of the file
SaveConfigAccessOnly(v, file, cfg) ==
    IF v = "github" \/ StoredTokens(file) = None THEN file
    ELSE Some([cfg EXCEPT !.trakt_tokens =
                 Some([access_token |-> cfg.trakt_tokens[1].access_token,
                       refresh_token |-> StoredTokens(file)[1].refresh_token])])

\* saveConfig after a refresh: writeFile(CONFIG_FILE, JSON.stringify(this.config));
\* sync-github.js has no saveConfig and leaves the secret as it is
SaveConfig(v, file, cfg) == IF v = "github" THEN file ELSE Some(cfg)

\* whether writeFile can fail: there is no write in sync-github.js
WriteOutcomes(v) == IF v = "github" THEN {TRUE} ELSE BOOLEAN

\* the body of the n-th successful answer of the token endpoint: a fresh pair
RefreshBody(reqs) ==
    Tokens(2 + Cardinality({i \in 1..Len(reqs) :
                               reqs[i].url = "token" /\ reqs[i].status \in 200..299}))

----------------------------------------------------------------------------
(* The sync log of sync-auto.mjs.                                            *)

\* if (logs.length > 100) logs = logs.slice(-100)
LogCap == 100

ErrorEntry(kind, st) ==
    [status |-> "error", error |-> [kind |-> kind, status |-> st]]

SuccessEntry(added) ==
    [status |-> "success", movies_added |-> added, episodes_added |-> added]

\* timestamp: new Date().toISOString()
Stamp(logEntry, now) == logEntry @@ ("timestamp" :> now)

\* a log of n entries written by earlier runs, one per tick of the clock, the
\* last one at time 0
OldLog(n) == [i \in 1..n |-> Stamp(ErrorEntry("old", 0), i - n)]

\* the truncation left out
LogSyncResultNoCap(file, logEntry, writeOk) ==
    IF file.kind = "object" \/ ~writeOk THEN file
    ELSE [kind |-> "list",
          entries |-> (IF file.kind = "list" THEN file.entries ELSE <<>>)
                      \o <<logEntry>>]

\* logSyncResult(logEntry): the content of the log file afterwards.  A missing
\* or unparseable file starts from []; a parsed value that is no array makes
\* logs.push throw, which the outer catch swallows, as it does a failed write
LogSyncResult(file, logEntry, writeOk) ==
    IF file.kind = "object" \/ ~writeOk THEN file
    ELSE LET logs == (IF file.kind = "list" THEN file.entries ELSE <<>>)
                     \o <<logEntry>>
         IN  [kind |-> "list",
              entries |-> IF Len(logs) > LogCap
                          THEN SubSeq(logs, Len(logs) - LogCap + 1, Len(logs))
                          ELSE logs]

\* the outer try/catch of logSyncResult left out: a parsed value that is no
\* array, or a failed write, throws to the caller
LogSyncThrowsOnFailure(file, writeOk) == file.kind = "object" \/ ~writeOk

\* whether logSyncResult throws to its caller: its outer catch prints every
\* failure ('Failed to log sync result') and returns
LogSyncThrows(file, writeOk) == FALSE

\* the log files a run may find
LogFiles ==
    {[kind |-> k, entries |-> <<>>] : k \in {"missing", "corrupt", "object"}}
    \cup {[kind |-> "list", entries |-> OldLog(n)] : n \in 0..MaxLogged}

----------------------------------------------------------------------------
(* Snapshots the source may return in a run.                                 *)

Ids(n) == [imdb |-> n, tmdb |-> n]

Episode(n, ts) == [number |-> n, last_watched_at |-> ts]

NoSnapshot == [movies |-> None, shows |-> None, anime |-> None]

OneShow ==
    [last_watched_at |-> 1, ids |-> Some(Ids(2)),
     seasons |-> Some(<<[number |-> 1, episodes |-> Some(<<Episode(1, 0)>>)]>>)]

RunSnapshots ==
    { NoSnapshot,
      [NoSnapshot EXCEPT !.movies = Some(<<[last_watched_at |-> 1, ids |-> Some(Ids(1))]>>)],
      [NoSnapshot EXCEPT !.movies = Some(<<[last_watched_at |-> 0, ids |-> Some(Ids(1))]>>)],
      [NoSnapshot EXCEPT !.movies = Some(<<[last_watched_at |-> 1, ids |-> None]>>)],
      [NoSnapshot EXCEPT !.shows = Some(<<OneShow>>)],
      [NoSnapshot EXCEPT !.anime = Some(<<OneShow>>)] }

----------------------------------------------------------------------------
(* One sync run.                                                             *)

Running == [kind |-> "running", status |-> 0]

SiteOf(p) == IF p \in {"probe", "probe_refresh", "probe_retry"} THEN "probe" ELSE "submit"

\* 'https://api.trakt.tv/users/settings' and 'https://api.trakt.tv/sync/history'
UrlOf(site) == IF site = "probe" THEN "settings" ELSE "history"

\* the method of the requests to a URL: only the token and history endpoints
\* are given {method: 'POST'}
MethodOf(url) == IF url \in {"token", "history"} THEN "POST" ELSE "GET"

\* the body traktRequest is given: JSON.stringify(traktObject) for the
\* submission, none for the probe
BodyOf(url) == IF url = "history" THEN traktObject ELSE None

\* a fetch() with the given credential, as it is recorded
Request(url, site, auth, st) ==
    [url |-> url, site |-> site, auth |-> auth, status |-> st,
     method |-> MethodOf(url), body |-> BodyOf(url),
     tokens |-> config[1].trakt_tokens, stored |-> StoredTokens(configFile)]

Init ==
    /\ variant \in Variants
    /\ configFile \in ConfigFiles
    /\ config = IF variant = "github" THEN Some(GitHubLoadConfig(configFile)) ELSE None
    /\ pc = IF variant = "github" THEN "getSimklWatched" ELSE "loadConfig"
    /\ watched = None
    /\ traktObject = None
    /\ requests = <<>>
    /\ logFile \in IF variant = "auto" THEN LogFiles
                   ELSE {[kind |-> "missing", entries |-> <<>>]}
    /\ outcome = Running
    /\ exitCode = 0
    /\ clock = 1

\* the catch block of sync()/autoSync(): report, (sync-auto.mjs) log an error
\* entry made at time now to the log file lf, process.exit(1)
Catch(kind, st, lf, now) ==
    /\ outcome' = [kind |-> kind, status |-> st]
    /\ pc' = "exited"
    /\ exitCode' = 1
    /\ IF variant = "auto"
       THEN /\ \E writeOk \in BOOLEAN :
                  logFile' = LogSyncResult(lf, Stamp(ErrorEntry(kind, st), now), writeOk)
            /\ clock' = now + 1
       ELSE logFile' = lf /\ clock' = clock

\* the function returns and the process ends by itself
Return(kind, st) ==
    /\ outcome' = [kind |-> kind, status |-> st]
    /\ pc' = "exited"
    /\ exitCode' = exitCode

\* loadConfig of sync.mjs and sync-auto.mjs, and the caller's process.exit(1)
loadConfig ==
    /\ pc = "loadConfig"
    /\ IF configFile # None
       THEN /\ config' = configFile
            /\ pc' = "getSimklWatched"
            /\ UNCHANGED <<outcome, exitCode>>
       ELSE /\ config' = config
            /\ outcome' = [kind |-> "ConfigMissing", status |-> 0]
            /\ pc' = "exited"
            /\ exitCode' = 1
    /\ UNCHANGED <<variant, configFile, watched, traktObject, requests, logFile, clock>>

\* mutant: fetchJSON returns the body of any response
FetchSucceedsAny(st) == ~Rejected(st)

\* fetchJSON: if (!response.ok) throw ...; return response.json()
FetchSucceeds(st) == Ok(st)

\* getSimklWatched / fetchJSON
getSimklWatched ==
    /\ pc = "getSimklWatched"
    /\ \E st \in Replies :
          /\ requests' = Append(requests, Request("simkl", "fetch", 0, st))
          /\ IF FetchSucceeds(st)
             THEN /\ \E w \in RunSnapshots : watched' = Some(w)
                  /\ pc' = "probe"
                  /\ UNCHANGED <<outcome, exitCode, logFile, clock>>
             ELSE /\ watched' = watched
                  /\ Catch(IF Rejected(st) THEN "NetworkError" ELSE "UpstreamFetchFailed",
                           st, logFile, clock)
    /\ UNCHANGED <<variant, configFile, config, traktObject>>

\* mutant: traktRequest refreshes the token after any non-2xx first response
NeedsRefreshOnFailure(st) == ~Ok(st)

\* whether traktRequest refreshes the token after this first response
NeedsRefresh(st) == st = Unauthorized

\* mutant: traktRequest handles a 401 on the re-issued request like the first
RefreshAfterRetryOn401(st) == st = Unauthorized

\* mutant: traktRequest refreshes and re-issues until the answer is a success
RefreshAfterRetryUntilOk(st) == ~Ok(st)

\* whether traktRequest refreshes again after this response to the re-issued
\* request: it returns that response whatever it is
RefreshAfterRetry(st) == FALSE

\* whether the script returns before the submission: the "No new items to sync"
\* test, which sync.mjs does not have
NothingToSync(v, payload) ==
    v # "manual" /\ Len(payload.movies) = 0 /\ Len(payload.shows) = 0

\* whether the script throws, hence exits 1, on a submission answered non-2xx:
\* sync.mjs only prints the failure
ThrowsOnSubmitFailure(v) == v # "manual"

\* mutant: initializeTrakt goes on whatever the probe answered
ProbeAcceptsAny(st) == TRUE

\* mutant: initializeTrakt throws on a server error only
ProbeAcceptsBelow500(st) == st < 500

\* initializeTrakt: if (response.ok) {...} else throw new Error('Trakt
\* authentication failed')
ProbeAccepts(st) == Ok(st)

\* the caller of traktRequest receives the response st
Deliver(site, st) ==
    IF site = "probe"
    THEN \* initializeTrakt
         IF ProbeAccepts(st)
         THEN pc' = "normalize" /\ UNCHANGED <<outcome, exitCode, logFile, clock>>
         ELSE Catch("ProbeFailed", 0, logFile, clock)
    ELSE IF Ok(st)
    THEN IF variant = "auto"
         THEN \E added \in 0..MaxAdded, writeOk \in BOOLEAN :
                 IF LogSyncThrows(logFile, writeOk)
                 THEN Catch("LogFailed", 0, logFile, clock + 1)
                 ELSE /\ Return("success", st)
                      /\ logFile' = LogSyncResult(logFile,
                                         Stamp(SuccessEntry(added), clock), writeOk)
                      /\ clock' = clock + 1
         ELSE Return("success", st) /\ logFile' = logFile /\ clock' = clock
    ELSE IF ~ThrowsOnSubmitFailure(variant)
    THEN Return("SubmitFailed", st) /\ logFile' = logFile /\ clock' = clock
    ELSE IF variant = "auto"
    THEN \E writeOk \in BOOLEAN :
            Catch("SubmitFailed", st,
                  LogSyncResult(logFile, Stamp(ErrorEntry("HttpStatus", st), clock),
                                writeOk),
                  clock + 1)
    ELSE Catch("SubmitFailed", st, logFile, clock)

\* traktRequest up to its first response
traktRequest ==
    /\ pc \in {"probe", "submit"}
    /\ IF config[1].trakt_tokens = None
       THEN \* this.config.trakt_tokens.access_token throws a TypeError
            requests' = requests /\ Catch("TypeError", 0, logFile, clock)
       ELSE \E st \in Replies :
               /\ requests' = Append(requests,
                      Request(UrlOf(pc), pc, config[1].trakt_tokens[1].access_token, st))
               /\ IF Rejected(st) THEN Catch("NetworkError", 0, logFile, clock)
                  ELSE IF NeedsRefresh(st)
                  THEN /\ pc' = IF pc = "probe" THEN "probe_refresh" ELSE "submit_refresh"
                       /\ UNCHANGED <<outcome, exitCode, logFile, clock>>
                  ELSE Deliver(pc, st)
    /\ UNCHANGED <<variant, configFile, config, watched, traktObject>>

\* mutant: refreshTraktToken takes the body of any response as the new tokens
RefreshSucceedsAny(st) == ~Rejected(st)

\* refreshTraktToken: if (response.ok) {replace, save} else throw
RefreshSucceeds(st) == Ok(st)

\* refreshTraktToken
refreshTraktToken ==
    /\ pc \in {"probe_refresh", "submit_refresh"}
    /\ \E st \in Replies, writeOk \in WriteOutcomes(variant) :
          /\ requests' = Append(requests,
                 Request("token", SiteOf(pc), config[1].trakt_tokens[1].refresh_token, st)
                 @@ ("returned" :> (RefreshSucceeds(st) /\ writeOk)))
          /\ IF RefreshSucceeds(st)
             THEN /\ config' = Some([config[1] EXCEPT
                                       !.trakt_tokens = Some(RefreshBody(requests))])
                  /\ IF writeOk
                     THEN /\ configFile' = SaveConfig(variant, configFile, config'[1])
                          /\ pc' = IF pc = "probe_refresh" THEN "probe_retry"
                                   ELSE "submit_retry"
                          /\ UNCHANGED <<outcome, exitCode, logFile, clock>>
                     ELSE /\ configFile' = configFile
                          /\ Catch("SaveFailed", 0, logFile, clock)
             ELSE /\ UNCHANGED <<config, configFile>>
                  /\ Catch(IF Rejected(st) THEN "NetworkError" ELSE "TokenRefreshFailed",
                           0, logFile, clock)
    /\ UNCHANGED <<variant, watched, traktObject>>

\* mutant: the Authorization header is not set again before the retry
RetryAuthStale(fresh, stale) == stale

\* defaultOptions.headers.Authorization = `Bearer ${...access_token}`: the
\* re-issued request carries the access token now in this.config, not the one
\* the first request was sent with
RetryAuth(fresh, stale) == fresh

\* traktRequest after the refresh: the request is issued again
retryRequest ==
    /\ pc \in {"probe_retry", "submit_retry"}
    /\ \E st \in Replies :
          /\ requests' = Append(requests,
                 Request(UrlOf(SiteOf(pc)), SiteOf(pc),
                         RetryAuth(config[1].trakt_tokens[1].access_token,
                                   requests[Len(requests) - 1].auth), st))
          /\ IF Rejected(st) THEN Catch("NetworkError", 0, logFile, clock)
             ELSE IF RefreshAfterRetry(st)
             THEN /\ pc' = IF pc = "probe_retry" THEN "probe_refresh" ELSE "submit_refresh"
                  /\ UNCHANGED <<outcome, exitCode, logFile, clock>>
             ELSE Deliver(SiteOf(pc), st)
    /\ UNCHANGED <<variant, configFile, config, watched, traktObject>>

\* the construction of traktObject and the "nothing to sync" return
normalize ==
    /\ pc = "normalize"
    /\ LET r == Normalize(variant, watched[1]) IN
       IF r.threw
       THEN traktObject' = traktObject /\ Catch("TypeError", 0, logFile, clock)
       ELSE /\ traktObject' = Some(r.payload)
            /\ logFile' = logFile
            /\ clock' = clock
            /\ IF NothingToSync(variant, r.payload)
               THEN Return("noop", 0)
               ELSE pc' = "submit" /\ UNCHANGED <<outcome, exitCode>>
    /\ UNCHANGED <<variant, configFile, config, watched, requests>>

Next ==
    \/ loadConfig
    \/ getSimklWatched
    \/ traktRequest
    \/ refreshTraktToken
    \/ retryRequest
    \/ normalize

Spec == Init /\ [][Next]_vars

----------------------------------------------------------------------------
(* The payload construction alone, on bounded snapshots: the run is placed   *)
(* right after a successful probe, with the snapshot as the fetched one.     *)

\* the episode collections of a season: absent, or up to MaxEpisodes episodes
\* numbered in order, each with its own timestamp or none
EpisodeLists ==
    {None} \cup
    {Some([i \in 1..Len(t) |-> Episode(i, t[i])]) :
        t \in SeqsUpTo({0, MaxTs + 1}, MaxEpisodes)}

\* the season collections of an entry: absent, or up to MaxSeasons seasons
SeasonLists ==
    {None} \cup
    {Some([i \in 1..Len(q) |-> [number |-> i, episodes |-> q[i]]]) :
        q \in SeqsUpTo(EpisodeLists, MaxSeasons)}

\* show / anime entries
Entries ==
    {[last_watched_at |-> ts, ids |-> Some(Ids(1)), seasons |-> sl] :
        ts \in 0..MaxTs, sl \in SeasonLists}

\* snapshots that hold the same entry once as a show and once as an anime
TwinSnapshots ==
    {[NoSnapshot EXCEPT !.shows = Some(<<e>>), !.anime = Some(<<e>>)] : e \in Entries}

\* movie entries: with or without a timestamp, with or without a movie object
MovieEntries ==
    {[last_watched_at |-> ts, ids |-> ids] :
        ts \in 0..MaxTs, ids \in {None, Some(Ids(1)), Some(Ids(2))}}

\* snapshots that hold movies only
MovieSnapshots ==
    {[NoSnapshot EXCEPT !.movies = Some(m)] : m \in SeqsUpTo(MovieEntries, MaxMovies)}

\* two titles that are emitted, one without a timestamp, one without seasons
OrderEntries ==
    { [OneShow EXCEPT !.ids = Some(Ids(1))],
      OneShow,
      [OneShow EXCEPT !.ids = Some(Ids(1)), !.last_watched_at = 0],
      [OneShow EXCEPT !.seasons = None] }

\* snapshots that hold several shows and several anime, titles repeated or not
OrderSnapshots ==
    {[NoSnapshot EXCEPT !.shows = Some(sh), !.anime = Some(an)] :
        sh \in SeqsUpTo(OrderEntries, MaxEntries),
        an \in SeqsUpTo(OrderEntries, MaxEntries)}

NormSnapshots == TwinSnapshots \cup MovieSnapshots \cup OrderSnapshots

NormInit ==
    /\ variant \in Variants
    /\ configFile = Some([trakt_tokens |-> Some(Tokens(1))])
    /\ config = configFile
    /\ pc = "normalize"
    /\ watched \in {Some(w) : w \in NormSnapshots}
    /\ traktObject = None
    /\ requests = <<>>
    /\ logFile = [kind |-> "missing", entries |-> <<>>]
    /\ outcome = Running
    /\ exitCode = 0
    /\ clock = 1

SpecNorm == NormInit /\ [][normalize]_vars

----------------------------------------------------------------------------
(* Two runs of sync.mjs or sync-auto.mjs at the same time on one             *)
(* CONFIG_FILE, each up to the end of its probe.  Here pc and config hold    *)
(* one value per run, and every await is a point where the other run may     *)
(* step.                                                                     *)

Runs == {1, 2}

\* the responses the two runs may receive
RaceReplies == {200, Unauthorized, 500}

\* a fetch() of run r, as it is recorded
RaceRequest(r, url, auth, st) ==
    [run |-> r, url |-> url, auth |-> auth, status |-> st,
     stored |-> StoredTokens(configFile)]

RaceInit ==
    /\ variant \in {"manual", "auto"}
    /\ configFile = Some([trakt_tokens |-> Some(Tokens(1))])
    /\ config = [r \in Runs |-> None]
    /\ pc = [r \in Runs |-> "loadConfig"]
    /\ watched = None
    /\ traktObject = None
    /\ requests = <<>>
    /\ logFile = [kind |-> "missing", entries |-> <<>>]
    /\ outcome = Running
    /\ exitCode = 0
    /\ clock = 1

\* loadConfig: JSON.parse(await readFile(CONFIG_FILE))
loadConfigOf(r) ==
    /\ pc[r] = "loadConfig"
    /\ config' = [config EXCEPT ![r] = configFile]
    /\ pc' = [pc EXCEPT ![r] = "getSimklWatched"]
    /\ UNCHANGED <<variant, configFile, watched, traktObject, requests, logFile,
                   outcome, exitCode, clock>>

\* getSimklWatched
getSimklWatchedOf(r) ==
    /\ pc[r] = "getSimklWatched"
    /\ \E st \in RaceReplies :
          /\ requests' = Append(requests, RaceRequest(r, "simkl", 0, st))
          /\ pc' = [pc EXCEPT ![r] = IF FetchSucceeds(st) THEN "probe" ELSE "exited"]
    /\ UNCHANGED <<variant, configFile, config, watched, traktObject, logFile,
                   outcome, exitCode, clock>>

\* traktRequest of initializeTrakt, up to its first response
traktRequestOf(r) ==
    /\ pc[r] = "probe"
    /\ \E st \in RaceReplies :
          /\ requests' = Append(requests,
                 RaceRequest(r, "settings", config[r][1].trakt_tokens[1].access_token, st))
          /\ pc' = [pc EXCEPT ![r] = IF NeedsRefresh(st) THEN "probe_refresh"
                                     ELSE IF ProbeAccepts(st) THEN "done"
                                     ELSE "exited"]
    /\ UNCHANGED <<variant, configFile, config, watched, traktObject, logFile,
                   outcome, exitCode, clock>>

\* refreshTraktToken up to this.config.trakt_tokens = await response.json()
refreshTraktTokenOf(r) ==
    /\ pc[r] = "probe_refresh"
    /\ \E st \in RaceReplies :
          /\ requests' = Append(requests,
                 RaceRequest(r, "token", config[r][1].trakt_tokens[1].refresh_token, st))
          /\ IF RefreshSucceeds(st)
             THEN /\ config' = [config EXCEPT ![r] =
                                   Some([@[1] EXCEPT
                                           !.trakt_tokens = Some(RefreshBody(requests))])]
                  /\ pc' = [pc EXCEPT ![r] = "saveConfig"]
             ELSE /\ config' = config
                  /\ pc' = [pc EXCEPT ![r] = "exited"]
    /\ UNCHANGED <<variant, configFile, watched, traktObject, logFile,
                   outcome, exitCode, clock>>

\* await this.saveConfig(): the whole file is written from this.config
saveConfigOf(r) ==
    /\ pc[r] = "saveConfig"
    /\ \E writeOk \in WriteOutcomes(variant) :
          IF writeOk
          THEN /\ configFile' = SaveConfig(variant, configFile, config[r][1])
               /\ pc' = [pc EXCEPT ![r] = "probe_retry"]
          ELSE /\ configFile' = configFile
               /\ pc' = [pc EXCEPT ![r] = "exited"]
    /\ UNCHANGED <<variant, config, watched, traktObject, requests, logFile,
                   outcome, exitCode, clock>>

\* traktRequest after the refresh: the request is issued again
retryRequestOf(r) ==
    /\ pc[r] = "probe_retry"
    /\ \E st \in RaceReplies :
          /\ requests' = Append(requests,
                 RaceRequest(r, "settings", config[r][1].trakt_tokens[1].access_token, st))
          /\ pc' = [pc EXCEPT ![r] = IF ProbeAccepts(st) THEN "done" ELSE "exited"]
    /\ UNCHANGED <<variant, configFile, config, watched, traktObject, logFile,
                   outcome, exitCode, clock>>

RaceNext ==
    \E r \in Runs :
        \/ loadConfigOf(r)
        \/ getSimklWatchedOf(r)
        \/ traktRequestOf(r)
        \/ refreshTraktTokenOf(r)
        \/ saveConfigOf(r)
        \/ retryRequestOf(r)

SpecRace == RaceInit /\ [][RaceNext]_vars

----------------------------------------------------------------------------
(* The polling loop of getTraktPin in setup.mjs, from startTime on.  Here    *)
(* clock is Date.now() - startTime in seconds, config holds the answer of    *)
(* the device-code request, requests the polls made so far.                  *)

\* the answers of the device-code request: expires_in and interval, in seconds
DeviceCodes ==
    {[expires_in |-> e, interval |-> i] : e \in 0..MaxExpires, i \in 1..MaxInterval}

\* what a poll may be answered: authorized, pending, gone, a server error, and
\* 0 for a fetch that rejects
PollReplies == {0, 200, 400, 410, 500}

\* mutant: a 410 (code expired) is taken as still pending too
StillPendingOrGone(st) == st \in {400, 410}

\* else if (tokenResponse.status === 400) continue
StillPending(st) == st = 400

\* tokenResponse.status === 200
Authorized(st) == st = 200

PinInit ==
    /\ variant = "setup"
    /\ configFile = None
    /\ config \in {Some(d) : d \in DeviceCodes}
    /\ pc = "while"
    /\ watched = None
    /\ traktObject = None
    /\ requests = <<>>
    /\ logFile = [kind |-> "missing", entries |-> <<>>]
    /\ outcome = Running
    /\ exitCode = 0
    /\ clock = 0

\* while (Date.now() - startTime < data.expires_in * 1000), and the throw after
\* the loop
whileTest ==
    /\ pc = "while"
    /\ IF clock < config[1].expires_in
       THEN pc' = "sleep" /\ outcome' = outcome
       ELSE pc' = "exited" /\ outcome' = [kind |-> "Timeout", status |-> 0]
    /\ UNCHANGED <<variant, configFile, config, watched, traktObject, requests,
                   logFile, exitCode, clock>>

\* await new Promise(resolve => setTimeout(resolve, data.interval * 1000)): the
\* timer fires after the interval, or later
sleep ==
    /\ pc = "sleep"
    /\ \E late \in 0..MaxLag : clock' = clock + config[1].interval + late
    /\ pc' = "poll"
    /\ UNCHANGED <<variant, configFile, config, watched, traktObject, requests,
                   logFile, outcome, exitCode>>

\* the fetch of oauth/device/token, which takes some time, and the test of its
\* status
poll ==
    /\ pc = "poll"
    /\ \E st \in PollReplies, took \in 0..MaxLag :
          /\ requests' = Append(requests, [url |-> "device/token", status |-> st,
                                            at |-> clock])
          /\ clock' = clock + took
          /\ IF Rejected(st)
             THEN pc' = "exited" /\ outcome' = [kind |-> "NetworkError", status |-> 0]
             ELSE IF Authorized(st)
             THEN pc' = "exited" /\ outcome' = [kind |-> "returned", status |-> st]
             ELSE IF StillPending(st)
             THEN pc' = "while" /\ outcome' = outcome
             ELSE pc' = "exited"
                  /\ outcome' = [kind |-> "AuthorizationFailed", status |-> st]
    /\ UNCHANGED <<variant, configFile, config, watched, traktObject, logFile,
                   exitCode>>

PinNext ==
    \/ whileTest
    \/ sleep
    \/ poll

SpecPin == PinInit /\ [][PinNext]_vars

\* every awaited timer fires and every awaited fetch settles
FairSpecPin == SpecPin /\ WF_vars(PinNext)

----------------------------------------------------------------------------
(* logSyncResult called again and again on one log file, as run after run    *)
(* does.                                                                     *)

\* the log files the calls may start from: no file, an unparseable one, one
\* that holds no array, a short array, an array at or just below the cap
LogStarts ==
    LogFiles \cup
    {[kind |-> "list", entries |-> OldLog(n)] : n \in (LogCap - MaxLogged)..LogCap}

LogInit ==
    /\ variant = "auto"
    /\ configFile = Some([trakt_tokens |-> Some(Tokens(1))])
    /\ config = configFile
    /\ pc = "log"
    /\ watched = None
    /\ traktObject = None
    /\ requests = <<>>
    /\ logFile \in LogStarts
    /\ outcome = Running
    /\ exitCode = 0
    /\ clock = 1

\* one call of logSyncResult, with a success or an error entry
logSyncResult ==
    /\ pc = "log"
    /\ clock <= MaxCalls
    /\ \E logEntry \in {SuccessEntry(added) : added \in 0..MaxAdded}
                       \cup {ErrorEntry("SubmitFailed", st) : st \in {401, 500}},
          writeOk \in BOOLEAN :
          logFile' = LogSyncResult(logFile, Stamp(logEntry, clock), writeOk)
    /\ clock' = clock + 1
    /\ UNCHANGED <<variant, configFile, config, pc, watched, traktObject, requests,
                   outcome, exitCode>>

SpecLog == LogInit /\ [][logSyncResult]_vars

----------------------------------------------------------------------------
(* Claims.                                                                   *)

\* the requests of one traktRequest call to its own URL, in order
CallRequests(site) ==
    SelectSeq(requests, LAMBDA r : r.site = site /\ r.url = UrlOf(site))

\* the token requests made within one traktRequest call, in order
CallRefreshes(site) ==
    SelectSeq(requests, LAMBDA r : r.site = site /\ r.url = "token")

\* the traktRequest call of this site was made and is over
CallOver(site) ==
    /\ Len(CallRequests(site)) > 0
    /\ pc \notin {site, IF site = "probe" THEN "probe_refresh" ELSE "submit_refresh",
                  IF site = "probe" THEN "probe_retry" ELSE "submit_retry"}

\* the first response of the call was a 401
First401(site) ==
    Len(CallRequests(site)) > 0 /\ CallRequests(site)[1].status = Unauthorized

Sites == {"probe", "submit"}

FailureOf(site) == IF site = "probe" THEN "ProbeFailed" ELSE "SubmitFailed"

\* C1 as stated: every traktRequest call whose first response is a 401 invokes
\* refreshTraktToken exactly once and re-issues the request exactly once; a 401
\* on the re-issued request goes to the caller as a failure.
C1_AsClaimed ==
    \A site \in Sites :
        (CallOver(site) /\ First401(site)) =>
            /\ Len(CallRefreshes(site)) = 1
            /\ Len(CallRequests(site)) = 2
            /\ (CallRequests(site)[2].status = Unauthorized =>
                   pc = "exited" /\ outcome.kind = FailureOf(site))

\* C1 amended: a traktRequest call whose first response is a 401 invokes
\* refreshTraktToken exactly once; the request is re-issued exactly once when
\* refreshTraktToken returns and not at all when it throws; there is never a
\* second refresh or a third request in the call, and a 401 on the re-issued
\* request goes to the caller as a failure.
C1_RefreshOnceRetryOnce ==
    \A site \in Sites :
        /\ Len(CallRefreshes(site)) <= 1
        /\ Len(CallRequests(site)) <= 2
        /\ (Len(CallRefreshes(site)) = 1 => First401(site))
        /\ (CallOver(site) /\ First401(site)) =>
              /\ Len(CallRefreshes(site)) = 1
              /\ Len(CallRequests(site)) =
                    (IF CallRefreshes(site)[1].returned THEN 2 ELSE 1)
              /\ (Len(CallRequests(site)) = 2
                  /\ CallRequests(site)[2].status = Unauthorized) =>
                     pc = "exited" /\ outcome.kind = FailureOf(site)

\* a call whose re-issued request was answered 401 again is over
C1_Witness ==
    \E site \in Sites :
        /\ CallOver(site)
        /\ Len(CallRequests(site)) = 2
        /\ CallRequests(site)[2].status = Unauthorized

\* the token requests answered 2xx, each of which replaces config.trakt_tokens
Replacements ==
    {i \in 1..Len(requests) : requests[i].url = "token" /\ Ok(requests[i].status)}

\* C2 as stated: in one run the token object of the credentials is replaced at
\* most once, counting the probe call and the submission call together.
C2_AsClaimed == Cardinality(Replacements) <= 1

\* C2 amended: the token object is replaced at most once in each traktRequest
\* call, hence at most twice in a run (once in the probe, once in the submission).
C2_OncePerCall ==
    /\ \A site \in Sites :
          Cardinality({i \in Replacements : requests[i].site = site}) <= 1
    /\ Cardinality(Replacements) <= 2

\* both calls of a run have refreshed the token
C2_Witness == Cardinality(Replacements) = 2

\* the destination requests issued after a successful refresh
AfterRefresh ==
    {i \in 1..Len(requests) :
        /\ requests[i].url \in {"settings", "history"}
        /\ \E j \in Replacements : j < i}

\* the token object this.config holds once the token requests before request i
\* have been answered: the body of the last one answered 2xx
LastBody(i) == Some(Tokens(1 + Cardinality({j \in Replacements : j < i})))

\* C3 as stated: in every script, at each destination request made after a
\* refresh the token object in memory is the body of the refresh response and
\* the persisted token object equals it.
C3_AsClaimed ==
    \A i \in AfterRefresh :
        /\ requests[i].tokens = LastBody(i)
        /\ requests[i].stored = requests[i].tokens

\* C3 amended: in every script the token object in memory is the body of the
\* refresh response at each destination request made after a refresh; in
\* sync.mjs and sync-auto.mjs the persisted token object equals it, while
\* sync-github.js persists nothing and its stored tokens stay as they were.
C3_PersistedBeforeRetry ==
    \A i \in AfterRefresh :
        /\ requests[i].tokens = LastBody(i)
        /\ requests[i].auth = LastBody(i)[1].access_token
        /\ IF variant = "github"
           THEN requests[i].stored = requests[1].stored
           ELSE requests[i].stored = requests[i].tokens

\* sync-auto.mjs has issued a destination request after a refresh
C3_Witness == variant = "auto" /\ AfterRefresh # {}

\* the token requests answered with a non-success status
FailedRefreshes ==
    {i \in 1..Len(requests) :
        /\ requests[i].url = "token"
        /\ ~Rejected(requests[i].status)
        /\ ~Ok(requests[i].status)}

\* C4: after a refresh answered with a non-success status the token object is
\* as it was (in memory and persisted), nothing more is requested (no re-issue,
\* no other refresh), and the run has failed with exit code 1.
C4_RefreshFailureIsFatal ==
    \A i \in FailedRefreshes :
        /\ i = Len(requests)
        /\ pc = "exited"
        /\ exitCode # 0
        /\ outcome.kind = "TokenRefreshFailed"
        /\ config[1].trakt_tokens = requests[i].tokens
        /\ StoredTokens(configFile) = requests[i].stored

\* a refresh was refused after an earlier one of the run had succeeded
C4_Witness == FailedRefreshes # {} /\ Replacements # {}

\* C5: a run exits with code 0 exactly when it reported success or nothing to
\* sync.
C5_AsClaimed ==
    pc = "exited" => (exitCode = 0 <=> outcome.kind \in {"success", "noop"})

\* the POSTs to the history endpoint
HistoryRequests == {i \in 1..Len(requests) : requests[i].url = "history"}

\* C6: when the payload has no movies and no shows, nothing is sent to the
\* history endpoint and the run ends as a successful "nothing to sync".
C6_AsClaimed ==
    (traktObject # None /\ traktObject[1] = EmptyPayload) =>
        /\ HistoryRequests = {}
        /\ pc = "exited" => (outcome.kind = "noop" /\ exitCode = 0)

\* the token object is absent, or its access token is absent or empty
NoAccessToken(t) == t = None \/ t[1].access_token = 0

\* C7: no request goes to the settings or history endpoint with an absent or
\* empty access token, and a run that starts with such a token never contacts
\* the destination.
C7_AsClaimed ==
    /\ \A i \in 1..Len(requests) :
          requests[i].url \in {"settings", "history"} => requests[i].auth # 0
    /\ (Len(requests) > 0 /\ NoAccessToken(requests[1].stored)) =>
          \A i \in 1..Len(requests) : requests[i].url = "simkl"

\* C8: with no credentials at the start of the run no request is issued at all
\* and the run ends as ConfigMissing with a non-zero exit code.
C8_AsClaimed ==
    configFile = None =>
        /\ requests = <<>>
        /\ pc = "exited" => (outcome.kind = "ConfigMissing" /\ exitCode # 0)

\* the source answered the watch-history GET with a non-2xx status
FetchRefused ==
    /\ Len(requests) > 0
    /\ requests[1].url = "simkl"
    /\ ~Rejected(requests[1].status)
    /\ ~Ok(requests[1].status)

\* C9: when the source answers the watch-history GET with a non-2xx status, the
\* run fails with an error carrying that status, holds no snapshot and no
\* payload, issues no request afterwards and exits with a non-zero code.
C9_FetchFailureIsFatal ==
    FetchRefused =>
        /\ Len(requests) = 1
        /\ watched = None
        /\ traktObject = None
        /\ pc = "exited"
        /\ exitCode # 0
        /\ outcome = [kind |-> "UpstreamFetchFailed", status |-> requests[1].status]

\* the source has refused the fetch of a run whose credentials were loaded
C9_Witness == FetchRefused /\ requests[1].status = 500 /\ variant = "auto"

\* C10: an entry normalized as an anime entry gives the same payload entry as
\* the same entry normalized as a show entry, in every script: once the payload
\* of a snapshot holding one entry as a show and as an anime is built, its shows
\* collection is empty or holds the same object twice.
C10_AsClaimed ==
    (traktObject # None /\ watched[1] \in TwinSnapshots) =>
        LET shows == traktObject[1].shows IN
        \/ shows = <<>>
        \/ Len(shows) = 2 /\ shows[1] = shows[2]

\* the seasons of a source entry and the episodes of a source season
SourceSeasons(entry) == IF entry.seasons = None THEN <<>> ELSE entry.seasons[1]

SourceEpisodes(season) == IF season.episodes = None THEN <<>> ELSE season.episodes[1]

\* the one source entry of a twin snapshot
TwinEntry == watched[1].shows[1][1]

Built == traktObject # None

\* C11: an episode emitted under a season of a show or anime entry carries, as
\* watched_at, the last_watched_at of that episode of that season in the
\* source when it is present, else the last_watched_at of the entry.
C11_AsClaimed ==
    (Built /\ watched[1] \in TwinSnapshots) =>
        \A x \in 1..Len(traktObject[1].shows) :
        \A k \in 1..Len(traktObject[1].shows[x].seasons) :
            LET out == traktObject[1].shows[x].seasons[k] IN
            \A j \in 1..Len(out.episodes) :
            \A i \in 1..Len(SourceSeasons(TwinEntry)) :
                LET season == SourceSeasons(TwinEntry)[i] IN
                \A n \in 1..Len(SourceEpisodes(season)) :
                    LET episode == SourceEpisodes(season)[n] IN
                    (season.number = out.number /\ episode.number = out.episodes[j].number)
                    => out.episodes[j].watched_at =
                          IF episode.last_watched_at # 0
                          THEN episode.last_watched_at
                          ELSE TwinEntry.last_watched_at

\* the positions of the movie entries of the snapshot that have a timestamp
DatedMovies == {i \in 1..Len(watched[1].movies[1]) :
                   watched[1].movies[1][i].last_watched_at # 0}

\* C12: a movie is emitted exactly when its last_watched_at is present: the
\* output holds as many movies as the input holds dated ones, never more than
\* the input, and every emitted movie carries the watched_at and the imdb and
\* tmdb ids of a dated input entry.
C12_MoviesWithTimestampOnly ==
    (Built /\ watched[1].movies # None) =>
        LET src == watched[1].movies[1]
            out == traktObject[1].movies
            Same(k, i) == /\ out[k].watched_at = src[i].last_watched_at
                          /\ out[k].ids.imdb = src[i].ids[1].imdb
                          /\ out[k].ids.tmdb = src[i].ids[1].tmdb
        IN  /\ Len(out) = Cardinality(DatedMovies)
            /\ Len(out) <= Len(src)
            /\ \A k \in 1..Len(out) : \E i \in DatedMovies : Same(k, i)
            /\ \A i \in DatedMovies : \E k \in 1..Len(out) : Same(k, i)

\* a dated and an undated movie went in, one movie came out
C12_Witness ==
    /\ Built
    /\ watched[1].movies # None
    /\ Len(watched[1].movies[1]) = 2
    /\ Cardinality(DatedMovies) = 1
    /\ Len(traktObject[1].movies) = 1

\* C13: every emitted show has a season and every emitted season an episode;
\* a season without episodes in the source is not emitted; an entry whose
\* seasons are absent, none or all empty is not emitted; none of this throws.
C13_AsClaimed ==
    (pc # "normalize" /\ watched[1] \in TwinSnapshots) =>
        /\ outcome.kind # "TypeError"
        /\ Built =>
            /\ \A x \in 1..Len(traktObject[1].shows) :
                  LET seasons == traktObject[1].shows[x].seasons IN
                  /\ Len(seasons) >= 1
                  /\ \A k \in 1..Len(seasons) :
                        /\ Len(seasons[k].episodes) >= 1
                        /\ \E i \in 1..Len(SourceSeasons(TwinEntry)) :
                              LET season == SourceSeasons(TwinEntry)[i] IN
                              /\ season.number = seasons[k].number
                              /\ Len(SourceEpisodes(season)) >= 1
            /\ (\A i \in 1..Len(SourceSeasons(TwinEntry)) :
                   Len(SourceEpisodes(SourceSeasons(TwinEntry)[i])) = 0)
               => traktObject[1].shows = <<>>

\* a collection of the snapshot, empty when absent
Optional(list) == IF list = None THEN <<>> ELSE list[1]

\* what identifies an emitted entry, and the same of a source entry
OutKeys(out) == [k \in 1..Len(out) |-> <<out[k].watched_at, out[k].ids>>]

SourceKeys(src) == [i \in 1..Len(src) |-> <<src[i].last_watched_at, src[i].ids[1]>>]

HasEpisode(entry) ==
    \E i \in 1..Len(SourceSeasons(entry)) :
        Len(SourceEpisodes(SourceSeasons(entry)[i])) >= 1

\* the entries with a timestamp and an episode, in the order of the source
Surviving(list) ==
    SelectSeq(list, LAMBDA e : e.last_watched_at # 0 /\ HasEpisode(e))

\* C14: the output keeps the order of the source and every repetition: the
\* movies are the dated movies in source order; the shows are the surviving
\* shows in source order, then the surviving anime in source order (in the
\* scripts that process anime).
C14_SourceOrderKept ==
    Built =>
        /\ OutKeys(traktObject[1].movies) =
              SourceKeys(SelectSeq(Optional(watched[1].movies),
                                   LAMBDA m : m.last_watched_at # 0))
        /\ OutKeys(traktObject[1].shows) =
              SourceKeys(Surviving(Optional(watched[1].shows)))
              \o (IF variant = "github" THEN <<>>
                  ELSE SourceKeys(Surviving(Optional(watched[1].anime))))

\* two different shows, then the same anime twice, all four emitted in order
C14_Witness ==
    /\ Built
    /\ Len(traktObject[1].shows) = 4
    /\ OutKeys(traktObject[1].shows)[1] # OutKeys(traktObject[1].shows)[2]
    /\ OutKeys(traktObject[1].shows)[3] = OutKeys(traktObject[1].shows)[4]
    /\ watched[1].anime[1][1] = watched[1].anime[1][2]
    /\ OutKeys(traktObject[1].shows)[2] # OutKeys(traktObject[1].shows)[3]

\* the array a log file holds; a missing or unparseable file counts as []
LogEntries(file) == IF file.kind = "list" THEN file.entries ELSE <<>>

\* C15: the persisted log never holds more than LogCap entries, and a call of
\* logSyncResult that writes leaves the entry it was given as the last
\* element, behind the most recent earlier entries in their order: all of
\* them while they fit, else the newest LogCap - 1.
C15_AppendAndTruncate ==
    [][LET old == LogEntries(logFile)
           new == LogEntries(logFile')
           kept == Len(new) - 1
       IN  /\ Len(old) <= LogCap
           /\ Len(new) <= LogCap
           /\ logFile' # logFile =>
                 /\ logFile'.kind = "list"
                 /\ Len(new) = IF Len(old) < LogCap THEN Len(old) + 1 ELSE LogCap
                 /\ new[Len(new)].timestamp = clock
                 /\ \A i \in 1..kept : new[i] = old[Len(old) - kept + i]]_vars

\* a full log took two more entries and lost its two oldest ones
C15_Witness ==
    /\ pc = "log"
    /\ logFile.kind = "list"
    /\ Len(logFile.entries) = LogCap
    /\ logFile.entries[1].timestamp = 3 - LogCap
    /\ logFile.entries[LogCap].timestamp >= 2

\* the last request of the run was the submission and it was accepted
SubmissionAccepted ==
    /\ Len(requests) > 0
    /\ requests[Len(requests)].url = "history"
    /\ Ok(requests[Len(requests)].status)

\* the entries of the log that this run recorded
RecordedNow == {i \in 1..Len(LogEntries(logFile)) : logFile.entries[i].timestamp >= 1}

\* C16: in sync-auto.mjs the reported outcome and the exit code follow from the
\* responses alone, whatever the log file holds and whether or not its read
\* and write succeed: an accepted submission is a success with exit code 0,
\* and nothing else is.
C16_LogFailureSwallowed ==
    (variant = "auto" /\ pc = "exited") =>
        /\ SubmissionAccepted =>
              /\ outcome = [kind |-> "success", status |-> requests[Len(requests)].status]
              /\ exitCode = 0
        /\ ~SubmissionAccepted =>
              /\ outcome.kind # "success"
              /\ exitCode = 0 <=> outcome.kind = "noop"
        /\ outcome.kind # "LogFailed"

\* the submission was accepted and the success entry could not be recorded
C16_Witness ==
    /\ variant = "auto"
    /\ pc = "exited"
    /\ outcome.kind = "success"
    /\ exitCode = 0
    /\ clock = 2
    /\ RecordedNow = {}

\* every call of logSyncResult in this run could record its entry
LogWritable ==
    /\ logFile.kind # "object"
    /\ Cardinality(RecordedNow) = clock - 1

\* C17: a run of sync-auto.mjs that ends in a fatal error, with a log that
\* can be written, has recorded a status-error entry when it exits non-zero.
C17_AsClaimed ==
    (variant = "auto" /\ pc = "exited" /\ exitCode # 0 /\ LogWritable) =>
        \E i \in RecordedNow : logFile.entries[i].status = "error"

\* the first response to the submission was a failure other than a 401
SubmitRefused ==
    /\ Len(CallRequests("submit")) > 0
    /\ ~Rejected(CallRequests("submit")[1].status)
    /\ ~Ok(CallRequests("submit")[1].status)
    /\ CallRequests("submit")[1].status # Unauthorized

\* C18: a run POSTs to the history endpoint at most twice, and a second time
\* only after a 401 on the first; after any other non-2xx first response there
\* is no refresh and no second POST, and the run ends as a failed submission
\* that carries the status.
C18_SubmitNotRetried ==
    /\ Cardinality(HistoryRequests) <= 2
    /\ Cardinality(HistoryRequests) = Len(CallRequests("submit"))
    /\ Len(CallRequests("submit")) = 2 =>
          CallRequests("submit")[1].status = Unauthorized
    /\ SubmitRefused =>
          /\ Len(CallRequests("submit")) = 1
          /\ CallRefreshes("submit") = <<>>
          /\ requests[Len(requests)] = CallRequests("submit")[1]
          /\ pc = "exited"
          /\ outcome = [kind |-> "SubmitFailed",
                        status |-> CallRequests("submit")[1].status]

\* the submission was answered 500 and the run is over
C18_Witness ==
    /\ SubmitRefused
    /\ CallRequests("submit")[1].status = 500
    /\ pc = "exited"

\* the requests sent to the destination: probe, submission, token refreshes
DestinationRequests == {i \in 1..Len(requests) : requests[i].url # "simkl"}

ProbeAccepted ==
    /\ Len(CallRequests("probe")) > 0
    /\ Ok(CallRequests("probe")[Len(CallRequests("probe"))].status)

\* the construction of the payload threw
NormalizationFailed ==
    /\ pc = "exited"
    /\ outcome.kind = "TypeError"
    /\ config[1].trakt_tokens # None

\* the step a request belongs to: fetch, probe, submit
StepOf(r) == IF r.url = "simkl" THEN 1 ELSE IF r.site = "probe" THEN 2 ELSE 3

ProbeFinal == CallRequests("probe")[Len(CallRequests("probe"))].status

\* C21: a POST goes to the history endpoint only when the source fetch was
\* answered 2xx and the probe was answered 2xx, at once or on its one retry
\* after a refresh; when the probe call ends with another response the run
\* fails and nothing is ever posted.
C21_SubmitOnlyAfterProbe ==
    /\ HistoryRequests # {} =>
          /\ requests[1].url = "simkl"
          /\ Ok(requests[1].status)
          /\ ProbeAccepted
          /\ Len(CallRequests("probe")) <= 2
    /\ (CallOver("probe") /\ ~Ok(ProbeFinal)) =>
          /\ pc = "exited"
          /\ exitCode = 1
          /\ outcome.kind \notin {"running", "success", "noop"}
          /\ HistoryRequests = {}

\* the probe was answered 401, refreshed, and refused again: the run is over
C21_Witness ==
    /\ CallOver("probe")
    /\ Len(CallRequests("probe")) = 2
    /\ ProbeFinal = 403
    /\ HistoryRequests = {}
    /\ pc = "exited"

\* the positions in requests of the requests of one traktRequest call to its
\* own URL
CallPositions(site) ==
    {i \in 1..Len(requests) : requests[i].site = site /\ requests[i].url = UrlOf(site)}

\* C22: the request traktRequest issues again after a refresh has the URL, the
\* method and the body of the first one, and its bearer token is the access
\* token of the body of that refresh, not the token that was answered 401.
C22_RetryCarriesNewToken ==
    \A site \in Sites : \A i, j \in CallPositions(site) :
        i < j =>
            /\ requests[j].url = requests[i].url
            /\ requests[j].method = requests[i].method
            /\ requests[j].body = requests[i].body
            /\ requests[j - 1].url = "token"
            /\ Ok(requests[j - 1].status)
            /\ requests[j].auth = LastBody(j)[1].access_token
            /\ requests[j].auth # requests[i].auth

\* the submission was answered 401 and issued again with its payload
C22_Witness ==
    /\ Len(CallRequests("submit")) = 2
    /\ CallRequests("submit")[2].body = traktObject
    /\ traktObject # None
    /\ CallRequests("submit")[2].method = "POST"

\* the log file holds nothing usable: it is missing, cannot be parsed, or
\* parses to a value that is no array
LogUnusable == logFile.kind \in {"missing", "corrupt", "object"}

\* the log file after the step holds exactly the entry made at this time
OnlyNewEntry ==
    /\ logFile'.kind = "list"
    /\ Len(logFile'.entries) = 1
    /\ logFile'.entries[1].timestamp = clock

\* C23: a call of logSyncResult on a missing or corrupt log treats it as
\* empty: the call can write, and whatever it writes is exactly the new entry.
C23_AsClaimed ==
    (pc = "log" /\ clock <= MaxCalls /\ LogUnusable) =>
        /\ ENABLED (logSyncResult /\ OnlyNewEntry)
        /\ ~ENABLED (logSyncResult /\ logFile' # logFile /\ ~OnlyNewEntry)

\* C24: a run of sync-auto.mjs records at most one entry in the log: a
\* submission answered non-2xx leaves one error entry, and no run leaves both
\* a success entry and an error entry.
C24_AsClaimed ==
    variant = "auto" =>
        /\ Cardinality(RecordedNow) <= 1
        /\ ~(\E i, j \in RecordedNow :
                /\ logFile.entries[i].status = "success"
                /\ logFile.entries[j].status = "error")

\* the requests of run r to a URL, in order
RunRequests(r, url) == SelectSeq(requests, LAMBDA q : q.run = r /\ q.url = url)

\* run r has refreshed and written CONFIG_FILE
Saved(r) == pc[r] = "probe_retry" \/ Len(RunRequests(r, "settings")) = 2

\* C25: nothing keeps two runs on one CONFIG_FILE apart.  Each run that
\* refreshes writes the file in full from its own memory, so once a run has
\* written, the file is wholly the configuration of one of the runs that
\* wrote; two runs that both wrote hold different token objects, and only one
\* of them is the persisted one.
C25_LastWriterWins ==
    /\ (\E r \in Runs : Saved(r)) =>
          \E r \in Runs : Saved(r) /\ configFile = config[r]
    /\ \A r, q \in Runs :
          (r # q /\ Saved(r) /\ Saved(q)) =>
              /\ config[r] # config[q]
              /\ configFile = config[r] <=> configFile # config[q]

\* both runs were answered 401, both refreshed with the refresh token they had
\* loaded from the file, both wrote the file; it holds the tokens of run 1 and
\* those of run 2 are in no file
C25_Witness ==
    /\ \A r \in Runs :
          /\ Saved(r)
          /\ RunRequests(r, "settings")[1].status = Unauthorized
          /\ Len(RunRequests(r, "token")) = 1
          /\ RunRequests(r, "token")[1].auth = Tokens(1).refresh_token
    /\ configFile = config[1]
    /\ StoredTokens(configFile) # config[2][1].trakt_tokens

\* every poll but the last one was answered 400
EarlierPollsPending ==
    \A i \in 1..(Len(requests) - 1) : requests[i].status = 400

\* the status of the last poll, 400 when there was none
LastPoll == IF requests = <<>> THEN 400 ELSE requests[Len(requests)].status

PollReturned == outcome = [kind |-> "returned", status |-> 200] /\ LastPoll = 200

PollFailed ==
    /\ outcome = [kind |-> "AuthorizationFailed", status |-> LastPoll]
    /\ LastPoll \notin {0, 200, 400}

PollTimedOut ==
    /\ outcome.kind = "Timeout"
    /\ LastPoll = 400
    /\ clock >= config[1].expires_in

PollRejected == outcome.kind = "NetworkError" /\ LastPoll = 0

PinOutcomes ==
    /\ EarlierPollsPending
    /\ \A i \in 1..Len(requests) : requests[i].at >= i * config[1].interval
    /\ pc # "exited" => (outcome = Running /\ LastPoll = 400)
    /\ pc = "exited" =>
          Cardinality({k \in 1..4 :
              \/ k = 1 /\ PollReturned
              \/ k = 2 /\ PollFailed
              \/ k = 3 /\ PollTimedOut
              \/ k = 4 /\ PollRejected}) = 1

============================================================================
